---- MODULE Spec2Model ----
(* A model of main.py (Asteroids): Game.update as the sequence of its calls,   *)
(* one step per call, over the fields of Game, Ship and the three managers.    *)
(*                                                                             *)
(* Coordinates are kept for the ship only, in fixed point (Unit parts of a     *)
(* pixel; products are truncated toward zero where the source uses floats).    *)
(* Shots, asteroids and explosions carry no coordinates: the outcome of        *)
(* is_circle_collide for a pair is an input of the tick (the variable          *)
(* overlap), and an entity's _position is kept as the identity of the Vector2  *)
(* object it refers to (Python passes and stores the reference).               *)
EXTENDS Integers, Sequences, FiniteSets, TLC

VARIABLES
    game,      \* the Game object: its fields, the ship and the three managers
    pc,        \* the call of Game.update that runs next
    keys,      \* the snapshot of pygame.key.get_pressed() of the current tick
    overlap,   \* the pairs <<asteroid index, shot index or 0 for the ship>> that overlap
    since_shot,  \* ticks begun since the tick of the last shot created, up to MAX_SHOT_DELAY
    since_loss,  \* ticks begun since the tick of the last life lost with lives left, up to
                 \* NoLoss; GameOver since the last life of a game was lost
    since_toggle \* ticks begun since the tick of the last toggle of the prompt, while the
                 \* game has stayed in the menu since; NoToggle otherwise

vars == <<game, pc, keys, overlap, since_shot, since_loss, since_toggle>>

----------------------------------------------------------------------------
(* Program constants *)

WIDTH == 800
HEIGHT == 600
GAME_MENU == 0
GAME_PLAY == 1
TEXT_WAIT == 30
MAX_RESPAWN_TIME == 250
MAX_TIME_TO_LIVE == 80
MAX_SHOT_DELAY == 15
EXPLOSION_FRAMES == 24
SHIP_FRAMES == 2
LAST_EXPLOSION_FRAME == 23
SCORE_PER_ASTEROID == 1000
START_ASTEROIDS == 5
START_LIVES == 3
ROTATE_STEP == 5
FULL_TURN == 360

(* Fixed point: Unit parts per pixel; a scale of 1.0 is Unit. *)
Unit == 100
FULL_SCALE == 100
MEDIUM_SCALE == 75
SMALL_SCALE == 50
THRUST_PERCENT == 10
DRAG_PERCENT == 99

(* Bounds of the exploration *)
MaxLevel == 2
MaxOverlap == 2
MaxShots == 2
MaxTurn == 1
MaxNear == 2
MaxKills == 7
MaxWait == 2
MaxQueue == 4     \* shots in a collection given to Manager.update on its own
MaxOffset == 2    \* ticks the oldest of them has left
MaxLaps == 2      \* screens a coordinate given to the position setter is off by
MaxNudge == 5     \* and hundredths of a pixel from the edge of a screen
MaxFlight == 3    \* ticks after which a shot in flight at game over hits nothing

----------------------------------------------------------------------------
(* Vector2 in fixed point *)

Vec(x, y) == <<x, y>>

VecAdd(a, b) == <<a[1] + b[1], a[2] + b[2]>>

\* float product a * (num / den), truncated toward zero
MulDiv(a, num, den) ==
    IF a >= 0 THEN (a * num) \div den ELSE -(((-a) * num) \div den)

VecScale(a, num, den) == <<MulDiv(a[1], num, den), MulDiv(a[2], num, den)>>

\* 100 * sin of a multiple of 5 degrees in 0..90, rounded
SinTable ==
    <<0, 9, 17, 26, 34, 42, 50, 57, 64, 71, 77, 82, 87, 91, 94, 97, 98, 100, 100>>

Sin(deg) ==
    LET d == deg % FULL_TURN
    IN  IF d <= 90 THEN SinTable[(d \div 5) + 1]
        ELSE IF d <= 180 THEN SinTable[((180 - d) \div 5) + 1]
        ELSE IF d <= 270 THEN -SinTable[((d - 180) \div 5) + 1]
        ELSE -SinTable[((360 - d) \div 5) + 1]

Cos(deg) == Sin(deg + 90)

Centre == Vec((WIDTH * Unit) \div 2, (HEIGHT * Unit) \div 2)

----------------------------------------------------------------------------
(* Identity of the Vector2 object a sprite's _position refers to *)

Fresh == <<"fresh">>            \* an object no other sprite refers to
ShipVector == <<"ship">>        \* the object the ship's _position refers to
AsteroidVector(i) == <<"asteroid", i>>  \* the object asteroid i's _position refers to

\* asteroid.position: the object asteroid i refers to
AsteroidPosition(g, i) ==
    LET a == g.asteroid_manager.objects[i]
    IN  IF a._position = Fresh THEN AsteroidVector(i) ELSE a._position

\* the sprites that referred to the object `ref` keep it; its former owner got a new one
Detach(objects, ref) ==
    [k \in 1..Len(objects) |->
        IF objects[k]._position = ref THEN [objects[k] EXCEPT !._position = Fresh]
        ELSE objects[k]]

IsAsteroidRef(ref) == Len(ref) = 2

DetachAsteroids(objects) ==
    [k \in 1..Len(objects) |->
        IF IsAsteroidRef(objects[k]._position)
        THEN [objects[k] EXCEPT !._position = Fresh]
        ELSE objects[k]]

----------------------------------------------------------------------------
(* Sprite *)

SetCurrentFrame(frame_count, value) ==
    IF value < 0 THEN 0
    ELSE IF value > frame_count - 1 THEN frame_count - 1
    ELSE value

SetRotate(value) == value % FULL_TURN

\* the setter with the remainder that takes the sign of the dividend
SetPositionTruncating(wrap, value) ==
    LET rem(a, n) == IF a >= 0 THEN a % n ELSE 0 - ((0 - a) % n)
    IN  IF wrap
        THEN Vec(rem(value[1] + WIDTH * Unit, WIDTH * Unit),
                 rem(value[2] + HEIGHT * Unit, HEIGHT * Unit))
        ELSE value

\* wrap is True for the ship, shots and asteroids
SetPosition(wrap, value) ==
    IF wrap
    THEN Vec((value[1] + WIDTH * Unit) % (WIDTH * Unit),
             (value[2] + HEIGHT * Unit) % (HEIGHT * Unit))
    ELSE value

----------------------------------------------------------------------------
(* Ship *)

NewShip ==
    [ _position |-> Vec(100 * Unit, 100 * Unit),
      velocity |-> Vec(0, 0),
      _rotate |-> 0,
      _current_frame |-> 0,
      thrust |-> FALSE,
      is_dead |-> FALSE ]

\* a vector of length Unit at -rotate degrees
GetHeading(ship) == Vec(Cos(ship._rotate), -Sin(ship._rotate))

ShipUpdate(ship) ==
    LET pushed == IF ship.thrust
                  THEN VecAdd(ship.velocity,
                              VecScale(GetHeading(ship), THRUST_PERCENT, 100))
                  ELSE ship.velocity
        velocity == VecScale(pushed, DRAG_PERCENT, 100)
    IN  [ship EXCEPT
            !._current_frame = SetCurrentFrame(SHIP_FRAMES, IF ship.thrust THEN 1 ELSE 0),
            !.velocity = velocity,
            !._position = SetPosition(TRUE, VecAdd(ship._position, velocity))]

----------------------------------------------------------------------------
(* Shot, Asteroid, Explosion *)

NewShot == [time_to_live |-> MAX_TIME_TO_LIVE, is_dead |-> FALSE, updates |-> 0]

\* the shot that dies one update late
ShotUpdateLate(shot) ==
    [shot EXCEPT
        !.time_to_live = IF @ > 0 THEN @ - 1 ELSE @,
        !.is_dead = IF shot.time_to_live = 0 THEN TRUE ELSE @,
        !.updates = @ + 1]

ShotUpdate(shot) ==
    LET ttl == IF shot.time_to_live > 0 THEN shot.time_to_live - 1
               ELSE shot.time_to_live
    IN  [shot EXCEPT
            !.time_to_live = ttl,
            !.is_dead = IF shot.time_to_live > 0 /\ ttl = 0 THEN TRUE ELSE @,
            !.updates = @ + 1]

NewAsteroid(scale, position) ==
    [scale |-> scale, is_dead |-> FALSE, _position |-> position]

\* Sprite.update of a wrapping sprite stores a new Vector2
AsteroidUpdate(asteroid) == [asteroid EXCEPT !._position = Fresh]

NewExplosion(position) ==
    [_current_frame |-> 0, is_dead |-> FALSE, _position |-> position]

\* the explosion that is marked dead one frame late
ExplosionUpdateLate(explosion) ==
    LET frame == SetCurrentFrame(EXPLOSION_FRAMES, explosion._current_frame + 1)
    IN  [explosion EXCEPT
            !._current_frame = frame,
            !.is_dead = IF frame = LAST_EXPLOSION_FRAME + 1 THEN TRUE ELSE @]

ExplosionUpdate(explosion) ==
    LET frame == SetCurrentFrame(EXPLOSION_FRAMES, explosion._current_frame + 1)
    IN  [explosion EXCEPT
            !._current_frame = frame,
            !.is_dead = IF frame = LAST_EXPLOSION_FRAME THEN TRUE ELSE @]

----------------------------------------------------------------------------
(* Manager *)

RemoveAt(objects, i) ==
    [k \in 1..(Len(objects) - 1) |-> IF k < i THEN objects[k] ELSE objects[k + 1]]

EntityUpdate(kind, e) ==
    IF kind = "shot" THEN ShotUpdate(e)
    ELSE IF kind = "asteroid" THEN AsteroidUpdate(e)
    ELSE ExplosionUpdate(e)

\* the loop that steps over the next entity after a removal
RECURSIVE ManagerLoopSkips(_, _, _)
ManagerLoopSkips(kind, objects, i) ==
    IF i < 1 THEN objects
    ELSE LET updated == [objects EXCEPT ![i] = EntityUpdate(kind, objects[i])]
         IN  IF updated[i].is_dead
             THEN ManagerLoopSkips(kind, RemoveAt(updated, i), i - 2)
             ELSE ManagerLoopSkips(kind, updated, i - 1)

\* the loop of Manager.update, from the last index down to the first
RECURSIVE ManagerLoop(_, _, _)
ManagerLoop(kind, objects, i) ==
    IF i < 1 THEN objects
    ELSE LET updated == [objects EXCEPT ![i] = EntityUpdate(kind, objects[i])]
             kept == IF updated[i].is_dead THEN RemoveAt(updated, i) ELSE updated
         IN  ManagerLoop(kind, kept, i - 1)

ManagerUpdate(kind, objects) == ManagerLoop(kind, objects, Len(objects))

ShotManagerUpdate(m) ==
    [ objects |-> ManagerUpdate("shot", m.objects),
      shot_delay |-> IF m.shot_delay > 0 THEN m.shot_delay - 1 ELSE m.shot_delay ]

\* the shot that starts a delay one tick short
AddShotShortDelay(m) ==
    IF m.shot_delay = 0
    THEN [objects |-> Append(m.objects, NewShot), shot_delay |-> MAX_SHOT_DELAY - 1]
    ELSE m

AddShot(m) ==
    IF m.shot_delay = 0
    THEN [objects |-> Append(m.objects, NewShot), shot_delay |-> MAX_SHOT_DELAY]
    ELSE m

AddAsteroid(m, scale, position) ==
    [m EXCEPT !.objects = Append(@, NewAsteroid(scale, position))]

RECURSIVE AddAsteroids(_, _)
AddAsteroids(m, num) ==
    IF num <= 0 THEN m
    ELSE AddAsteroids(AddAsteroid(m, FULL_SCALE, Fresh), num - 1)

AddExplosion(m, position) ==
    [m EXCEPT !.objects = Append(@, NewExplosion(position))]

----------------------------------------------------------------------------
(* Game *)

NewGame ==
    [ ship |-> [NewShip EXCEPT !.is_dead = TRUE],
      shot_manager |-> [objects |-> <<>>, shot_delay |-> 0],
      asteroid_manager |-> [objects |-> <<>>],
      explosion_manager |-> [objects |-> <<>>],
      game_state |-> GAME_MENU,
      text_visible |-> TRUE,
      text_blink |-> 0,
      level |-> 0,
      lives |-> 0,
      score |-> 0,
      respawn_time |-> 0 ]

\* self.ship.position = Vector2(WIDTH / 2, HEIGHT / 2): the ship gets a new object
CentreShip(g) ==
    [g EXCEPT
        !.ship._position = SetPosition(TRUE, Centre),
        !.explosion_manager.objects = Detach(@, ShipVector)]

\* the restart that keeps the asteroids of the game before
RestartKeepsAsteroids(g) ==
    LET centred == CentreShip(g)
    IN  [centred EXCEPT
            !.ship.is_dead = FALSE,
            !.asteroid_manager = AddAsteroids(@, START_ASTEROIDS),
            !.level = 1,
            !.lives = START_LIVES,
            !.score = 0,
            !.game_state = GAME_PLAY]

Restart(g) ==
    LET centred == CentreShip(g)
    IN  [centred EXCEPT
            !.ship.is_dead = FALSE,
            !.asteroid_manager = AddAsteroids([objects |-> <<>>], START_ASTEROIDS),
            !.level = 1,
            !.lives = START_LIVES,
            !.score = 0,
            !.game_state = GAME_PLAY]

\* Game.update, the branch for GAME_MENU
MenuInput(g, k) ==
    LET started == IF k.space THEN Restart(g) ELSE g
    IN  IF started.text_blink > 0
        THEN [started EXCEPT !.text_blink = @ - 1]
        ELSE [started EXCEPT !.text_blink = TEXT_WAIT, !.text_visible = ~@]

\* the respawn that leaves the ship where it died
RespawnInPlace(g) ==
    IF g.respawn_time > 0
    THEN LET counted == [g EXCEPT !.respawn_time = @ - 1]
         IN  IF counted.respawn_time = 0
             THEN [counted EXCEPT !.ship.is_dead = FALSE]
             ELSE counted
    ELSE g

Respawn(g) ==
    IF g.respawn_time > 0
    THEN LET counted == [g EXCEPT !.respawn_time = @ - 1]
         IN  IF counted.respawn_time = 0
             THEN CentreShip([counted EXCEPT !.ship.is_dead = FALSE])
             ELSE counted
    ELSE g

\* Game.update, the branch for GAME_PLAY
PlayInput(g, k) ==
    LET left == IF k.left
                THEN [g EXCEPT !.ship._rotate = SetRotate(@ + ROTATE_STEP)] ELSE g
        right == IF k.right
                 THEN [left EXCEPT !.ship._rotate = SetRotate(@ - ROTATE_STEP)] ELSE left
        thrust == [right EXCEPT !.ship.thrust = k.up]
        fired == IF k.fire
                 THEN [thrust EXCEPT !.shot_manager = AddShot(@)] ELSE thrust
    IN  Respawn(fired)

Input(g, k) ==
    IF g.game_state = GAME_MENU THEN MenuInput(g, k) ELSE PlayInput(g, k)

\* the shot test that never steps the scale below 0.75
HitAsteroidOneStep(g, i, j) ==
    LET asteroid == g.asteroid_manager.objects[i]
        position == AsteroidPosition(g, i)
        marked == [g EXCEPT
                     !.shot_manager.objects[j].is_dead = TRUE,
                     !.asteroid_manager.objects[i].is_dead = TRUE,
                     !.explosion_manager = AddExplosion(@, position),
                     !.score = @ + SCORE_PER_ASTEROID]
    IN  IF asteroid.scale > SMALL_SCALE
        THEN [marked EXCEPT
                !.asteroid_manager =
                    AddAsteroid(AddAsteroid(@, MEDIUM_SCALE, position),
                                MEDIUM_SCALE, position)]
        ELSE marked

\* the shot test that leaves the shot alive
HitAsteroidShotLives(g, i, j) ==
    LET asteroid == g.asteroid_manager.objects[i]
        position == AsteroidPosition(g, i)
        marked == [g EXCEPT
                     !.asteroid_manager.objects[i].is_dead = TRUE,
                     !.explosion_manager = AddExplosion(@, position),
                     !.score = @ + SCORE_PER_ASTEROID]
    IN  IF asteroid.scale > SMALL_SCALE
        THEN LET scale == IF asteroid.scale = FULL_SCALE THEN MEDIUM_SCALE
                          ELSE SMALL_SCALE
             IN  [marked EXCEPT
                    !.asteroid_manager =
                        AddAsteroid(AddAsteroid(@, scale, position), scale, position)]
        ELSE marked

\* the body of the shot test of chk_collisions, for asteroid i hit by shot j
HitAsteroid(g, i, j) ==
    LET asteroid == g.asteroid_manager.objects[i]
        position == AsteroidPosition(g, i)
        marked == [g EXCEPT
                     !.shot_manager.objects[j].is_dead = TRUE,
                     !.asteroid_manager.objects[i].is_dead = TRUE,
                     !.explosion_manager = AddExplosion(@, position),
                     !.score = @ + SCORE_PER_ASTEROID]
    IN  IF asteroid.scale > SMALL_SCALE
        THEN LET scale == IF asteroid.scale = FULL_SCALE THEN MEDIUM_SCALE
                          ELSE SMALL_SCALE
             IN  [marked EXCEPT
                    !.asteroid_manager =
                        AddAsteroid(AddAsteroid(@, scale, position), scale, position)]
        ELSE marked

\* the ship hit that starts the respawn timer whatever the lives left
HitShipAlwaysRespawn(g) ==
    LET lost == [g EXCEPT
                    !.lives = @ - 1,
                    !.ship.is_dead = TRUE,
                    !.ship.thrust = FALSE,
                    !.explosion_manager = AddExplosion(@, ShipVector)]
    IN  IF lost.lives = 0
        THEN [lost EXCEPT !.game_state = GAME_MENU, !.respawn_time = MAX_RESPAWN_TIME]
        ELSE [lost EXCEPT !.respawn_time = MAX_RESPAWN_TIME]

\* the ship hit that leaves the game in play when the last life goes
HitShipKeepsPlaying(g) ==
    [g EXCEPT
        !.lives = @ - 1,
        !.ship.is_dead = TRUE,
        !.ship.thrust = FALSE,
        !.explosion_manager = AddExplosion(@, ShipVector)]

\* the body of the ship test of chk_collisions
HitShip(g) ==
    LET lost == [g EXCEPT
                    !.lives = @ - 1,
                    !.ship.is_dead = TRUE,
                    !.ship.thrust = FALSE,
                    !.explosion_manager = AddExplosion(@, ShipVector)]
    IN  IF lost.lives = 0
        THEN [lost EXCEPT !.game_state = GAME_MENU]
        ELSE [lost EXCEPT !.respawn_time = MAX_RESPAWN_TIME]

\* the inner loop over the shots, for asteroid i, from shot j on
RECURSIVE ShotLoop(_, _, _, _)
ShotLoop(g, o, i, j) ==
    IF j > Len(g.shot_manager.objects) THEN g
    ELSE IF /\ ~g.asteroid_manager.objects[i].is_dead
            /\ ~g.shot_manager.objects[j].is_dead
            /\ <<i, j>> \in o
         THEN ShotLoop(HitAsteroid(g, i, j), o, i, j + 1)
         ELSE ShotLoop(g, o, i, j + 1)

\* the ship test without the test of the ship's own flag
ShipTestAnyShip(g, o, i) ==
    IF /\ ~g.asteroid_manager.objects[i].is_dead
       /\ <<i, 0>> \in o
    THEN HitShip(g)
    ELSE g

\* the ship test without the test of the asteroid's flag
ShipTestAnyAsteroid(g, o, i) ==
    IF /\ ~g.ship.is_dead
       /\ <<i, 0>> \in o
    THEN HitShip(g)
    ELSE g

ShipTest(g, o, i) ==
    IF /\ ~g.asteroid_manager.objects[i].is_dead
       /\ ~g.ship.is_dead
       /\ <<i, 0>> \in o
    THEN HitShip(g)
    ELSE g

\* the outer loop that passes over the asteroids the pass itself has added
RECURSIVE AsteroidLoopSkipsChildren(_, _, _)
AsteroidLoopSkipsChildren(g, o, i) ==
    IF i > Len(g.asteroid_manager.objects) THEN g
    ELSE IF IsAsteroidRef(g.asteroid_manager.objects[i]._position)
         THEN AsteroidLoopSkipsChildren(g, o, i + 1)
         ELSE AsteroidLoopSkipsChildren(ShipTest(ShotLoop(g, o, i, 1), o, i), o, i + 1)

\* the outer loop over the asteroids, which grows while it runs
RECURSIVE AsteroidLoop(_, _, _)
AsteroidLoop(g, o, i) ==
    IF i > Len(g.asteroid_manager.objects) THEN g
    ELSE AsteroidLoop(ShipTest(ShotLoop(g, o, i, 1), o, i), o, i + 1)

\* the pass that runs in play only
ChkCollisionsInPlay(g, o) ==
    IF g.game_state = GAME_MENU THEN g ELSE AsteroidLoop(g, o, 1)

ChkCollisions(g, o) == AsteroidLoop(g, o, 1)

\* the three manager updates of Game.update
UpdateManagers(g) ==
    LET shots == [g EXCEPT !.shot_manager = ShotManagerUpdate(@)]
        asteroids == [shots EXCEPT
                        !.asteroid_manager.objects = ManagerUpdate("asteroid", @),
                        !.explosion_manager.objects = DetachAsteroids(@)]
    IN  [asteroids EXCEPT
            !.explosion_manager.objects = ManagerUpdate("explosion", @)]

\* the level step that counts the asteroids from the level cleared
LevelClearOldLevel(g) ==
    IF Len(g.asteroid_manager.objects) = 0
    THEN [g EXCEPT
            !.level = @ + 1,
            !.asteroid_manager = AddAsteroids(@, 3 + g.level * 2)]
    ELSE g

LevelClear(g) ==
    IF Len(g.asteroid_manager.objects) = 0
    THEN LET up == [g EXCEPT !.level = @ + 1]
         IN  [up EXCEPT
                !.asteroid_manager = AddAsteroids(@, 3 + up.level * 2)]
    ELSE g

----------------------------------------------------------------------------
(* The inputs of a tick *)

NoKeys == [space |-> FALSE, left |-> FALSE, right |-> FALSE, up |-> FALSE, fire |-> FALSE]

AllKeys == [space : BOOLEAN, left : BOOLEAN, right : BOOLEAN, up : BOOLEAN, fire : BOOLEAN]

----------------------------------------------------------------------------
(* Game.update, one step per call *)

Min(a, b) == IF a < b THEN a ELSE b

\* no life has been lost with lives left, or longer ago than the respawn time
NoLoss == MAX_RESPAWN_TIME + 1

GameOver == NoLoss + 1

\* the prompt has not toggled since the game came to the menu
NoToggle == TEXT_WAIT + 2

\* lines 310-332: poll the keys, then the branch of the game state
HandleInput(K) ==
    /\ pc = "input"
    /\ \E k \in K :
        /\ keys' = k
        /\ game' = Input(game, k)
    /\ pc' = "ship"
    /\ since_shot' = IF Len(game'.shot_manager.objects) > Len(game.shot_manager.objects)
                     THEN 0 ELSE Min(since_shot + 1, MAX_SHOT_DELAY)
    /\ since_loss' = IF since_loss = GameOver THEN GameOver ELSE Min(since_loss + 1, NoLoss)
    /\ since_toggle' = IF game'.game_state # GAME_MENU THEN NoToggle
                       ELSE IF game'.text_visible # game.text_visible THEN 0
                       ELSE Min(since_toggle + 1, NoToggle)
    /\ UNCHANGED overlap

\* the ship update that is followed by the updates of the shots
UpdateShipAndShots(g) ==
    [g EXCEPT
        !.ship = ShipUpdate(@),
        !.explosion_manager.objects = Detach(@, ShipVector),
        !.shot_manager.objects = [k \in 1..Len(@) |-> ShotUpdate(@[k])]]

\* self.ship.update(clock): a wrapping sprite stores a new Vector2
UpdateShip(g) ==
    [g EXCEPT
        !.ship = ShipUpdate(@),
        !.explosion_manager.objects = Detach(@, ShipVector)]

\* line 333; the sprites that overlap once the ship has moved are drawn from O
ShipStep(O) ==
    /\ pc = "ship"
    /\ game' = UpdateShip(game)
    /\ overlap' \in O
    /\ keys' = NoKeys
    /\ pc' = "collide"
    /\ UNCHANGED <<since_shot, since_loss, since_toggle>>

\* line 334
CollideStep ==
    /\ pc = "collide"
    /\ game' = ChkCollisions(game, overlap)
    /\ overlap' = {}
    /\ pc' = "managers"
    /\ since_loss' = IF game'.lives < game.lives
                     THEN (IF game'.lives > 0 THEN 0 ELSE GameOver)
                     ELSE since_loss
    /\ UNCHANGED <<keys, since_shot, since_toggle>>

\* lines 335-337
ManagersStep ==
    /\ pc = "managers"
    /\ game' = UpdateManagers(game)
    /\ pc' = "level"
    /\ UNCHANGED <<keys, overlap, since_shot, since_loss, since_toggle>>

\* lines 338-340
LevelStep ==
    /\ pc = "level"
    /\ Len(game.asteroid_manager.objects) = 0 => game.level < MaxLevel
    /\ game' = LevelClear(game)
    /\ pc' = "input"
    /\ UNCHANGED <<keys, overlap, since_shot, since_loss, since_toggle>>

Init ==
    /\ game = NewGame
    /\ pc = "input"
    /\ keys = NoKeys
    /\ overlap = {}
    /\ since_shot = MAX_SHOT_DELAY
    /\ since_loss = NoLoss
    /\ since_toggle = NoToggle

----------------------------------------------------------------------------
(* The environment: the keys the player holds and the sprites that overlap *)

Shots == game.shot_manager.objects
Asteroids == game.asteroid_manager.objects
Explosions == game.explosion_manager.objects

\* the player turns at most MaxTurn steps away from rotation 0
TurnOK(k) ==
    LET r == SetRotate(game.ship._rotate
                       + (IF k.left THEN ROTATE_STEP ELSE 0)
                       - (IF k.right THEN ROTATE_STEP ELSE 0))
    IN  r <= MaxTurn * ROTATE_STEP \/ r >= FULL_TURN - MaxTurn * ROTATE_STEP

\* the player thrusts only from rest at the centre
ThrustOK(k) ==
    k.up => game.ship.velocity = Vec(0, 0) /\ game.ship._position = Centre

\* the player fires only while fewer than MaxShots shots are in flight
FireOK(k) == k.fire /\ game.shot_manager.shot_delay = 0 => Len(Shots) < MaxShots

\* the ship is dead and the respawn timer runs
Waiting ==
    /\ game.game_state = GAME_PLAY
    /\ game.ship.is_dead
    /\ game.respawn_time > 0

\* the player has waited MaxWait ticks for the ship to come back and quits
\* (the QUIT event of Game.run ends the loop)
GaveUp ==
    /\ game.game_state = GAME_PLAY
    /\ game.ship.is_dead
    /\ game.respawn_time <= MAX_RESPAWN_TIME - MaxWait

\* the pairs of asteroid i with the ship (0), if withShip, and with the shots of S
PairsOf(i, withShip, S) == {i} \X ((IF withShip THEN {0} ELSE {}) \cup S)

\* the asteroids near the ship and the shots when the pass has run on g with the
\* overlaps o: the last MaxNear ones, and the ones the pass itself adds
Near(g, o) ==
    LET n == Len(g.asteroid_manager.objects)
        m == Len(ChkCollisions(g, o).asteroid_manager.objects)
    IN  {i \in 1..m : i > n - MaxNear}

\* the sets of at most n overlaps among the near asteroids, the ship and the shots of S
RECURSIVE OverlapsUpTo(_, _, _, _)
OverlapsUpTo(g, withShip, S, n) ==
    IF n = 0 THEN {{}}
    ELSE LET smaller == OverlapsUpTo(g, withShip, S, n - 1)
         IN  smaller \cup
             UNION {{o \cup {p} : p \in UNION {PairsOf(i, withShip, S) : i \in Near(g, o)}} :
                    o \in smaller}

\* the overlaps of the pass about to run on g: at most MaxOverlap pairs, each of an
\* asteroid that is in the collection when the pass ends, and no more than
\* MaxKills asteroids destroyed in one game
OverlapsOf(g, withShip, S) ==
    {o \in OverlapsUpTo(g, withShip, S, MaxOverlap) :
        LET after == ChkCollisions(g, o)
        IN  /\ \A p \in o : p[1] <= Len(after.asteroid_manager.objects)
            /\ after.score <= MaxKills * SCORE_PER_ASTEROID}

\* the shots that can hit in the pass about to run on g: all those in flight, on the
\* ticks in which the player has fired one
ShotsInRange(g) ==
    LET shots == g.shot_manager.objects
    IN  IF \E j \in 1..Len(shots) : shots[j].time_to_live = MAX_TIME_TO_LIVE
        THEN 1..Len(shots) ELSE {}

\* the player fires a further shot only as soon as the cooldown allows it, or in the
\* last tick of the only shot in flight
FireSoonOK(k) ==
    k.fire /\ game.shot_manager.shot_delay = 0 /\ Len(Shots) > 0 =>
        \/ Shots[Len(Shots)].time_to_live = MAX_TIME_TO_LIVE - MAX_SHOT_DELAY
        \/ Len(Shots) = 1 /\ Shots[1].time_to_live = 1

\* the player presses start in the menu only when the prompt is about to toggle,
\* and during play only while the ship is alive
StartOK(k) ==
    k.space => IF game.game_state = GAME_MENU
               THEN game.text_blink = 0 /\ game.text_visible
               ELSE ~game.ship.is_dead

KeysPlay ==
    {k \in AllKeys : ~k.fire /\ ~k.left /\ ~k.right /\ StartOK(k) /\ ThrustOK(k)}

Next ==
    \/ HandleInput(KeysPlay)
    \/ ShipStep(OverlapsOf(UpdateShip(game), TRUE, {}))
    \/ CollideStep
    \/ ManagersStep
    \/ LevelStep

Spec == Init /\ [][Next]_vars

\* shooting with no collisions: the cooldown and the life of a shot
KeysFire ==
    {k \in AllKeys : ~k.left /\ ~k.right /\ ~k.up /\ StartOK(k) /\ FireOK(k)}

NextFire ==
    \/ HandleInput(KeysFire)
    \/ ShipStep({{}})
    \/ CollideStep
    \/ ManagersStep
    \/ LevelStep

SpecFire == Init /\ [][NextFire]_vars

\* shooting at the asteroids near the ship; the player quits soon after a crash
KeysShots ==
    IF GaveUp THEN {}
    ELSE {k \in AllKeys : /\ ~k.left /\ ~k.right /\ ~k.up
                          /\ k.space => game.game_state = GAME_MENU
                          /\ StartOK(k) /\ FireOK(k) /\ FireSoonOK(k)}

NextShots ==
    \/ HandleInput(KeysShots)
    \/ ShipStep(OverlapsOf(UpdateShip(game), ShotsInRange(game) # {}, ShotsInRange(game)))
    \/ CollideStep
    \/ ManagersStep
    \/ LevelStep

SpecShots == Init /\ [][NextShots]_vars

\* clearing a level: one shot at a time, which can hit the last asteroid as it is fired
KeysClear ==
    {k \in AllKeys : /\ ~k.left /\ ~k.right /\ ~k.up
                     /\ StartOK(k)
                     /\ k.fire /\ game.shot_manager.shot_delay = 0 => Len(Shots) = 0}

OverlapsClear(g) ==
    LET n == Len(g.asteroid_manager.objects)
        shots == g.shot_manager.objects
    IN  {{}} \cup {{<<n, j>>} : j \in {j \in 1..Len(shots) :
                                        n > 0 /\ shots[j].time_to_live = MAX_TIME_TO_LIVE}}

NextClear ==
    \/ HandleInput(KeysClear)
    \/ ShipStep(OverlapsClear(game))
    \/ CollideStep
    \/ ManagersStep
    \/ LevelStep

SpecClear == Init /\ [][NextClear]_vars

\* steering, thrusting and firing, before and after a crash; the player quits soon
\* after a crash
KeysControl ==
    IF GaveUp THEN {}
    ELSE {k \in AllKeys : /\ TurnOK(k)
                          /\ ThrustOK(k)
                          /\ StartOK(k) /\ FireOK(k) /\ FireSoonOK(k)}

NextControl ==
    \/ HandleInput(KeysControl)
    \/ ShipStep(OverlapsOf(UpdateShip(game), TRUE, {}))
    \/ CollideStep
    \/ ManagersStep
    \/ LevelStep

SpecControl == Init /\ [][NextControl]_vars

----------------------------------------------------------------------------
(* Properties *)

Ship == game.ship

ShipPairs == {p \in overlap : p[2] = 0}

\* the pass about to run finds the live ship on a live asteroid: the ship overlaps an
\* asteroid that no shot overlaps
ShipCollides ==
    /\ pc = "collide"
    /\ ~Ship.is_dead
    /\ \E p \in ShipPairs : \A q \in overlap : q[1] = p[1] => q[2] = 0

\* C1: a collision of the live ship with a live asteroid takes one life, kills the
\* ship, clears its thrust flag and adds an explosion at the ship's position; with
\* one life left the game goes to the menu and the respawn timer is left alone,
\* otherwise the game stays in play and the respawn timer is set to 250.
C1_LifeLoss ==
    [][ShipCollides =>
          /\ game'.lives = game.lives - 1
          /\ game'.ship.is_dead
          /\ ~game'.ship.thrust
          /\ \E n \in 1..Len(game'.explosion_manager.objects) :
                /\ n > Len(Explosions)
                /\ game'.explosion_manager.objects[n] = NewExplosion(ShipVector)
          /\ IF game.lives = 1
             THEN /\ game'.game_state = GAME_MENU
                  /\ game'.respawn_time = game.respawn_time
                  /\ game'.respawn_time = 0
             ELSE /\ game'.game_state = GAME_PLAY
                  /\ game.game_state = GAME_PLAY
                  /\ game'.respawn_time = MAX_RESPAWN_TIME]_vars

\* the pass has just taken the last life: menu, no respawn timer, an explosion at the ship
C1_Witness ==
    /\ pc = "managers"
    /\ game.lives = 0
    /\ game.game_state = GAME_MENU
    /\ game.respawn_time = 0
    /\ \E n \in 1..Len(Explosions) : Explosions[n] = NewExplosion(ShipVector)

\* C2: lives is never negative; a life is lost only in the collision pass, only with
\* lives >= 1, and at most one per pass, however many asteroids the ship overlaps.
C2_LivesNeverNegative ==
    /\ game.lives >= 0
    /\ [][/\ game'.lives >= 0
          /\ game'.lives >= game.lives - 1
          /\ game'.lives < game.lives => game.lives >= 1 /\ pc = "collide"]_vars

\* a pass in which the live ship overlaps two asteroids
C2_Witness ==
    /\ pc = "collide"
    /\ ~Ship.is_dead
    /\ game.lives = 1
    /\ Cardinality(ShipPairs) >= 2

Dead(objects) == {n \in 1..Len(objects) : objects[n].is_dead}

ShotPairs == {p \in overlap : p[2] > 0}

\* C3: the pass adds 1000 to the score for each asteroid it kills, split or not; each
\* kill is the kill of one shot and of one asteroid that overlap, so as many shots as
\* asteroids die; a pass in which only the ship overlaps asteroids kills no asteroid
\* and leaves the score; outside the pass the score changes only by the reset to 0
\* of a start.
C3_Score ==
    [][IF pc = "collide"
       THEN LET asteroids == game'.asteroid_manager.objects
                shots == game'.shot_manager.objects
            IN  /\ Dead(Asteroids) = {} /\ Dead(Shots) = {}
                /\ game'.score = game.score + 1000 * Cardinality(Dead(asteroids))
                /\ Cardinality(Dead(shots)) = Cardinality(Dead(asteroids))
                /\ \A i \in Dead(asteroids) :
                      Cardinality({j \in Dead(shots) : <<i, j>> \in overlap}) >= 1
                /\ \A j \in Dead(shots) :
                      Cardinality({i \in Dead(asteroids) : <<i, j>> \in overlap}) >= 1
                /\ ShotPairs = {} => Dead(asteroids) = {} /\ game'.score = game.score
       ELSE \/ game'.score = game.score
            \/ /\ pc = "input" /\ game.game_state = GAME_MENU /\ keys'.space
               /\ game'.score = 0]_vars

\* a pass has just killed a small asteroid, which does not split, and taken a life
C3_Witness ==
    /\ pc = "managers"
    /\ Cardinality(Dead(Asteroids)) = 1
    /\ \E i \in Dead(Asteroids) : Asteroids[i].scale = SMALL_SCALE
    /\ game.score >= 3000
    /\ since_loss = 0

Splitters(objects) == {i \in Dead(objects) : objects[i].scale > SMALL_SCALE}

\* the destructions an asteroid of this scale still accounts for
Weight(scale) == IF scale = FULL_SCALE THEN 7 ELSE IF scale = MEDIUM_SCALE THEN 3 ELSE 1

RECURSIVE TotalWeight(_, _)
TotalWeight(objects, n) ==
    IF n = 0 THEN 0
    ELSE TotalWeight(objects, n - 1)
         + (IF objects[n].is_dead THEN 0 ELSE Weight(objects[n].scale))

\* C4: in the pass, a killed asteroid of scale 1.0 gets two new asteroids of scale
\* 0.75, one of scale 0.75 two of scale 0.5, each holding the killed asteroid's
\* position, and one of scale 0.5 none; nothing else is added. So every scale is 1.0,
\* 0.75 or 0.5, and a full asteroid accounts for 7 destructions: the asteroids killed
\* so far and those the live ones still account for add up to 7 per full asteroid
\* spawned (level 1 spawns 5, level l spawns 3 + 2l).
C4_Splitting ==
    /\ [](/\ \A n \in 1..Len(Asteroids) :
                Asteroids[n].scale \in {FULL_SCALE, MEDIUM_SCALE, SMALL_SCALE}
          /\ game.score = 1000 * (game.score \div 1000)
          /\ (game.score \div 1000) + TotalWeight(Asteroids, Len(Asteroids))
                = 7 * (game.level * game.level + 4 * game.level))
    /\ [][pc = "collide" =>
            LET old == Asteroids
                new == game'.asteroid_manager.objects
                n == Len(old)
            IN  /\ Len(new) = n + 2 * Cardinality(Splitters(new))
                /\ \A i \in 1..n :
                      /\ new[i].scale = old[i].scale
                      /\ new[i]._position = old[i]._position
                /\ \A i \in Splitters(new) :
                      LET rank == Cardinality({s \in Splitters(new) : s <= i})
                      IN  \A c \in {n + 2 * rank - 1, n + 2 * rank} :
                            /\ new[c].scale = IF new[i].scale = 100 THEN 75 ELSE 50
                            /\ new[c]._position = AsteroidPosition(game', i)
                            /\ c > i]_vars

\* a pass has just killed a full asteroid and one of the two it got
C4_Witness ==
    /\ pc = "managers"
    /\ \E i, c \in Dead(Asteroids) :
          /\ Asteroids[i].scale = FULL_SCALE
          /\ Asteroids[c].scale = MEDIUM_SCALE
          /\ Asteroids[c]._position = AsteroidVector(i)
    /\ Len(Asteroids) = 9

FullAsteroids(n) == [i \in 1..n |-> NewAsteroid(FULL_SCALE, Fresh)]

\* C5: the game starts in the menu; it leaves the menu only in the input handling of
\* a tick with the start key down, and then it is in play with the ship alive at the
\* centre (400, 300), exactly 5 full asteroids in place of the earlier ones, level 1,
\* 3 lives and score 0; in play the start key changes nothing (with no other key but
\* thrust down and no respawn pending, only the thrust flag is set from its key).
C5_Start ==
    /\ game.game_state = GAME_MENU
    /\ [][/\ game.game_state = GAME_MENU /\ game'.game_state # GAME_MENU =>
                pc = "input" /\ keys'.space
          /\ pc = "input" /\ game.game_state = GAME_MENU /\ keys'.space =>
                /\ game'.game_state = GAME_PLAY
                /\ ~game'.ship.is_dead
                /\ game'.ship._position = <<40000, 30000>>
                /\ game'.asteroid_manager.objects = FullAsteroids(5)
                /\ game'.level = 1
                /\ game'.lives = 3
                /\ game'.score = 0
          /\ /\ pc = "input" /\ game.game_state = GAME_PLAY /\ keys'.space
             /\ ~keys'.left /\ ~keys'.right /\ ~keys'.fire /\ game.respawn_time = 0
             => game' = [game EXCEPT !.ship.thrust = keys'.up]]_vars

\* a second start, after a game that ended less than 250 ticks ago: the asteroids of
\* that game are replaced
C5_Witness ==
    /\ pc = "ship"
    /\ keys.space
    /\ game.game_state = GAME_PLAY
    /\ game.lives = 3
    /\ since_loss = GameOver
    /\ Asteroids = FullAsteroids(5)

\* C6 as stated: in the 250th tick after a life loss with lives left, the tick in
\* which the timer reaches 0, the ship is alive and at the centre: every step of
\* that tick after the input handling leaves it so.
C6_AsStated ==
    [][since_loss = MAX_RESPAWN_TIME /\ pc # "input" =>
            ~game'.ship.is_dead /\ game'.ship._position = Centre]_vars

\* C6, amended: after a life loss with lives left the respawn timer goes down by one in
\* the input handling of every tick of play and the ship is dead while it is above 0
\* (it is 250 less the ticks begun since the loss); in the input handling of the
\* 250th tick it reaches 0 and the ship is made alive and put at the centre; the
\* ship update of that tick then moves it by its velocity, and the collision pass of
\* that tick kills it again exactly when it overlaps a live asteroid, so a ship that
\* did not collide ends the tick alive at centre + velocity (wrapped).
C6_Respawn ==
    /\ [](/\ game.respawn_time > 0 =>
                /\ game.game_state = GAME_PLAY
                /\ Ship.is_dead
          /\ since_loss < MAX_RESPAWN_TIME =>
                game.respawn_time = MAX_RESPAWN_TIME - since_loss
          /\ pc = "input" /\ since_loss = MAX_RESPAWN_TIME =>
                /\ game.respawn_time = 0
                /\ ~Ship.is_dead
                /\ Ship._position = SetPosition(TRUE, VecAdd(Centre, Ship.velocity)))
    /\ [][/\ pc = "input" /\ game.respawn_time > 0 =>
                game'.respawn_time = game.respawn_time - 1
          /\ pc # "input" /\ game.respawn_time > 0 =>
                game'.respawn_time = game.respawn_time
          /\ game.respawn_time = 1 /\ game'.respawn_time = 0 =>
                /\ since_loss' = MAX_RESPAWN_TIME
                /\ ~game'.ship.is_dead
                /\ game'.ship._position = Centre
          /\ pc = "collide" /\ since_loss = MAX_RESPAWN_TIME =>
                /\ game'.ship.is_dead <=> ShipCollides
                /\ game'.ship._position = game.ship._position]_vars

\* the ship has come back and ended the tick off the centre
C6_Witness ==
    /\ pc = "input"
    /\ since_loss = MAX_RESPAWN_TIME
    /\ ~Ship.is_dead
    /\ Ship._position # Centre
    /\ game.lives = 1

\* C7 as stated: while the ship is dead and the respawn timer runs, the rotation, thrust
\* and fire keys do nothing: the input handling leaves the rotation, the thrust flag
\* and the shots as they are, and the ship update only applies the drag to the
\* velocity.
C7_DeadShipIgnoresKeys ==
    [][/\ pc = "input" /\ Waiting /\ Waiting' =>
            /\ game'.ship._rotate = game.ship._rotate
            /\ game'.ship.thrust = game.ship.thrust
            /\ game'.shot_manager.objects = game.shot_manager.objects
       /\ pc = "ship" /\ Waiting =>
            game'.ship.velocity = VecScale(game.ship.velocity, DRAG_PERCENT, 100)]_vars

\* C8: the level step of a tick that finds no asteroid adds 1 to the level and spawns
\* 3 + 2 * (the new level) full asteroids; a level step that finds asteroids changes
\* neither; no other step changes the level, but the start that sets it to 1.
C8_LevelUp ==
    [][IF pc = "level"
       THEN IF Len(Asteroids) = 0
            THEN /\ game'.level = game.level + 1
                 /\ game'.asteroid_manager.objects = FullAsteroids(3 + 2 * game'.level)
            ELSE /\ game'.level = game.level
                 /\ game'.asteroid_manager.objects = Asteroids
       ELSE \/ game'.level = game.level
            \/ /\ pc = "input" /\ game.game_state = GAME_MENU /\ keys'.space
               /\ game'.level = 1]_vars

\* level 1 has been cleared by shots: level 2 has begun with 7 full asteroids
C8_Witness ==
    /\ pc = "input"
    /\ game.level = 2
    /\ game.score = 35 * SCORE_PER_ASTEROID
    /\ Asteroids = FullAsteroids(7)

\* C9: the input handling adds a shot exactly when the game is in play, the fire key
\* is down and the cooldown is 0, and then sets the cooldown to 15; no other step adds
\* a shot; the cooldown goes down by one to 0 in the manager updates of every tick,
\* fired or not, in the menu or in play. So a fire attempt 1 to 14 ticks after a shot
\* adds none and one 15 or more ticks after it adds one.
C9_Cooldown ==
    [][LET delay == game.shot_manager.shot_delay
           added == Len(game'.shot_manager.objects) > Len(Shots)
       IN  /\ pc = "input" =>
                /\ added <=> game.game_state = GAME_PLAY /\ keys'.fire /\ delay = 0
                /\ added =>
                      /\ game'.shot_manager.objects = Append(Shots, NewShot)
                      /\ game'.shot_manager.shot_delay = 15
                /\ ~added => game'.shot_manager = game.shot_manager
                /\ game.game_state = GAME_PLAY /\ keys'.fire =>
                      (added <=> since_shot + 1 >= 15)
           /\ pc # "input" => ~added
           /\ pc = "managers" =>
                game'.shot_manager.shot_delay = IF delay > 0 THEN delay - 1 ELSE 0
           /\ pc \notin {"input", "managers"} =>
                game'.shot_manager.shot_delay = delay]_vars

\* with the fire key held, a second shot has been added 15 ticks after the first
C9_Witness ==
    /\ pc = "ship"
    /\ keys.fire
    /\ since_shot = 0
    /\ Len(Shots) = 2
    /\ Shots[1].updates = 15
    /\ Shots[2] = NewShot

\* the shots of the sequence that are alive after one more update, updated
Survivors(shots) ==
    LET alive == {j \in 1..Len(shots) : ~shots[j].is_dead /\ shots[j].time_to_live > 1}
        nth(k) == CHOOSE j \in alive : Cardinality({i \in alive : i <= j}) = k
    IN  [k \in 1..Cardinality(alive) |->
            [shots[nth(k)] EXCEPT !.time_to_live = @ - 1, !.updates = @ + 1]]

\* C10: a shot starts with 80 ticks to live and loses one in the manager updates of
\* every tick from the tick that adds it on: a shot in the collection has had 80 less
\* its time to live updates, fewer than 80, and is dead only when the pass has just
\* marked it hit; the manager updates drop the shots marked hit and the shots
\* that get their 80th update, and keep every other shot, with one tick less to live.
C10_ShotLife ==
    /\ [](\A j \in 1..Len(Shots) :
            /\ Shots[j].time_to_live + Shots[j].updates = 80
            /\ Shots[j].time_to_live >= 1
            /\ Shots[j].is_dead => pc = "managers")
    /\ [][/\ pc = "managers" => game'.shot_manager.objects = Survivors(Shots)
          /\ pc = "input" /\ Len(game'.shot_manager.objects) > Len(Shots) =>
                game'.shot_manager.objects[Len(Shots) + 1].time_to_live = 80]_vars

\* a shot that hit nothing is about to get its 80th update, next to a shot marked hit
C10_Witness ==
    /\ pc = "managers"
    /\ \E j, h \in 1..Len(Shots) :
          /\ Shots[j].updates = 79
          /\ ~Shots[j].is_dead
          /\ Shots[h].is_dead

\* C11: in the pass the shots are tried on an asteroid before the ship is: a life
\* is lost exactly when the live ship overlaps an asteroid that no shot has killed
\* in this pass, so an asteroid that a shot kills costs no life; and a pair is
\* skipped once its asteroid or its shot is dead: no overlapping pair is left with
\* both alive, and as many shots die as asteroids.
C11_ShotsBeforeShip ==
    [][pc = "collide" =>
          LET asteroids == game'.asteroid_manager.objects
              shots == game'.shot_manager.objects
          IN  /\ game'.lives < game.lives <=>
                    /\ ~Ship.is_dead
                    /\ \E p \in ShipPairs : ~asteroids[p[1]].is_dead
              /\ \A p \in ShotPairs : asteroids[p[1]].is_dead \/ shots[p[2]].is_dead
              /\ \A i \in Dead(asteroids) : \A j \in 1..Len(shots) :
                    (<<i, j>> \in overlap /\ ~shots[j].is_dead) =>
                        \E h \in 1..(j - 1) : <<i, h>> \in overlap /\ shots[h].is_dead
              /\ Cardinality(Dead(shots)) = Cardinality(Dead(asteroids))]_vars

\* the pass is about to run with an asteroid that overlaps the live ship and a shot
C11_Witness ==
    /\ pc = "collide"
    /\ ~Ship.is_dead
    /\ \E i \in 1..Len(Asteroids) : \E j \in 1..Len(Shots) :
          overlap = {<<i, 0>>, <<i, j>>}

----------------------------------------------------------------------------
(* Manager.update on its own: the shot manager's collection, drawn from the     *)
(* collections of shots fired MAX_SHOT_DELAY ticks apart, the oldest first;     *)
(* before each call any of the shots are marked dead, as the collision pass     *)
(* marks the shots that hit                                                     *)

QueuedShot(k, first) ==
    LET ttl == first + MAX_SHOT_DELAY * (k - 1)
    IN  [time_to_live |-> ttl, is_dead |-> FALSE, updates |-> MAX_TIME_TO_LIVE - ttl]

Queues ==
    UNION {{[k \in 1..n |-> QueuedShot(k, first)] : first \in 1..MaxOffset} :
              n \in 0..MaxQueue}

InitReap ==
    /\ \E q \in Queues : game = [NewGame EXCEPT !.shot_manager.objects = q]
    /\ pc = "collide"
    /\ keys = NoKeys
    /\ overlap = {}
    /\ since_shot = MAX_SHOT_DELAY
    /\ since_loss = NoLoss
    /\ since_toggle = NoToggle

MarkStep ==
    /\ pc = "collide"
    /\ Len(Shots) > 0
    /\ \E hits \in SUBSET (1..Len(Shots)) :
          game' = [game EXCEPT !.shot_manager.objects =
                      [k \in 1..Len(Shots) |-> [Shots[k] EXCEPT !.is_dead = k \in hits]]]
    /\ pc' = "managers"
    /\ UNCHANGED <<keys, overlap, since_shot, since_loss, since_toggle>>

ReapStep ==
    /\ pc = "managers"
    /\ game' = [game EXCEPT !.shot_manager = ShotManagerUpdate(@)]
    /\ pc' = "collide"
    /\ UNCHANGED <<keys, overlap, since_shot, since_loss, since_toggle>>

NextReap == MarkStep \/ ReapStep

SpecReap == InitReap /\ [][NextReap]_vars

\* C12: a call of Manager.update updates every entity of the collection once, removes
\* those that are dead after their update (marked before the call or by the update)
\* and no other, and keeps the order of the rest: the entity that stays, the r-th of
\* those that stay, is the r-th of the collection after the call, updated once; so
\* no entity of the collection is dead after the call.
C12_UpdateAndReap ==
    [][pc = "managers" =>
          LET old == Shots
              new == game'.shot_manager.objects
              stay == {j \in 1..Len(old) : ~old[j].is_dead /\ old[j].time_to_live # 1}
          IN  /\ Len(new) = Cardinality(stay)
              /\ \A k \in 1..Len(new) : ~new[k].is_dead
              /\ \A j \in stay :
                    LET r == Cardinality({i \in stay : i <= j})
                    IN  /\ new[r].updates = old[j].updates + 1
                        /\ new[r].time_to_live = old[j].time_to_live - 1]_vars

\* a call is about to run on a collection of four with two neighbours marked hit
\* between one that runs out in this call and one that stays
C12_Witness ==
    /\ pc = "managers"
    /\ Len(Shots) = 4
    /\ Shots[1].time_to_live = 1 /\ ~Shots[1].is_dead
    /\ Shots[2].is_dead /\ Shots[3].is_dead
    /\ ~Shots[4].is_dead

\* C13 as stated: the update of an entity moves that entity only. Sprite.update adds
\* the velocity to the Vector2 object the entity's position refers to, in place, so it
\* moves every entity that refers to the same object: as stated, when the asteroids
\* and the explosions are updated no asteroid refers to the object of another
\* asteroid and no explosion to the object of an asteroid, and when a ship with a
\* velocity is updated no explosion refers to the ship's object.
C13_OwnVelocityOnly ==
    /\ pc = "managers" =>
          /\ \A i \in 1..Len(Asteroids) : Asteroids[i]._position = Fresh
          /\ \A n \in 1..Len(Explosions) : ~IsAsteroidRef(Explosions[n]._position)
    /\ pc = "ship" /\ Ship.velocity # Vec(0, 0) =>
          \A n \in 1..Len(Explosions) : Explosions[n]._position # ShipVector

\* C14 as stated: in every tick the shots are updated before the collision pass, as
\* the ship is, and after the pass the dead entities are removed and nothing else is
\* done: every shot the pass sees has been updated, and the manager updates leave
\* the shots that stay as they are.
C14_AsStated ==
    [][/\ pc = "collide" => \A j \in 1..Len(Shots) : Shots[j].updates >= 1
       /\ pc = "managers" =>
             \A k \in 1..Len(game'.shot_manager.objects) :
                \E j \in 1..Len(Shots) : game'.shot_manager.objects[k] = Shots[j]]_vars

\* C14, amended: in every tick the ship is updated, then the collision pass runs, then
\* the manager updates update the shots, the asteroids and the explosions and remove
\* the dead ones in the same loops. The ship update changes no shot and no
\* asteroid; the pass updates and removes nothing (it only marks and appends); shots
\* are updated and entities removed in the manager updates only (but for the start,
\* which clears the asteroids). So the pass sees the ship as moved in this tick and
\* the shots as the previous tick left them: a shot fired in this tick has had no
\* update when the pass tries it.
C14_TickOrder ==
    [][LET shots == game'.shot_manager.objects
           asteroids == game'.asteroid_manager.objects
           explosions == game'.explosion_manager.objects
       IN  /\ pc = "ship" =>
                /\ game'.ship = ShipUpdate(Ship)
                /\ shots = Shots
                /\ asteroids = Asteroids
                /\ pc' = "collide"
           /\ pc = "collide" =>
                /\ Len(shots) = Len(Shots)
                /\ \A j \in 1..Len(Shots) :
                      /\ shots[j].updates = Shots[j].updates
                      /\ shots[j].time_to_live = Shots[j].time_to_live
                /\ Len(asteroids) >= Len(Asteroids)
                /\ Len(explosions) >= Len(Explosions)
                /\ game'.ship._position = Ship._position
                /\ since_shot = 0 /\ Len(Shots) > 0 => Shots[Len(Shots)].updates = 0
                /\ pc' = "managers"
           /\ pc = "managers" =>
                /\ \A k \in 1..Len(shots) : shots[k].updates >= 1 /\ ~shots[k].is_dead
                /\ \A k \in 1..Len(asteroids) :
                      ~asteroids[k].is_dead /\ asteroids[k]._position = Fresh
                /\ \A k \in 1..Len(explosions) : explosions[k]._current_frame >= 1
                /\ Dead(Shots) # {} => Len(shots) < Len(Shots)
                /\ pc' = "level"
           /\ pc # "managers" =>
                /\ Len(shots) >= Len(Shots)
                /\ Len(explosions) >= Len(Explosions)
                /\ \/ Len(asteroids) >= Len(Asteroids)
                   \/ pc = "input" /\ game.game_state = GAME_MENU /\ keys'.space]_vars

\* the pass is about to try a shot fired in this tick, not yet updated, on an
\* asteroid it overlaps
C14_Witness ==
    /\ pc = "collide"
    /\ since_shot = 0
    /\ Len(Shots) > 0
    /\ Shots[Len(Shots)].updates = 0
    /\ \E i \in 1..Len(Asteroids) : <<i, Len(Shots)>> \in overlap

\* C15: an explosion is added at frame 0 by the collision pass and gains one frame in
\* the manager updates of every tick, from the tick that adds it on; the update that
\* takes it to frame 23, its 23rd, marks it dead and the same call removes it, so an
\* explosion in the collection is alive at a frame from 0 to 22 (frame 0 only between
\* the pass and the manager updates); a write of the frame is clamped to 0..23.
C15_ExplosionLife ==
    /\ [](/\ \A n \in 1..Len(Explosions) :
                /\ Explosions[n]._current_frame \in 0..22
                /\ ~Explosions[n].is_dead
                /\ Explosions[n]._current_frame = 0 => pc = "managers"
          /\ \A v \in (0 - EXPLOSION_FRAMES)..(2 * EXPLOSION_FRAMES) :
                LET w == SetCurrentFrame(EXPLOSION_FRAMES, v)
                IN  /\ w >= 0 /\ w < 24
                    /\ v \in 0..23 => w = v)
    /\ [][LET old == Explosions
              new == game'.explosion_manager.objects
              stay == {n \in 1..Len(old) : old[n]._current_frame # 22}
          IN  /\ pc = "managers" =>
                    /\ Len(new) = Cardinality(stay)
                    /\ \A n \in stay :
                          new[Cardinality({i \in stay : i <= n})]._current_frame
                              = old[n]._current_frame + 1
              /\ pc # "managers" =>
                    /\ Len(new) >= Len(old)
                    /\ \A n \in 1..Len(old) : new[n]._current_frame = old[n]._current_frame
                    /\ \A n \in (Len(old) + 1)..Len(new) : new[n]._current_frame = 0
              /\ Len(new) > Len(old) => pc = "collide"]_vars

\* an explosion at frame 22 is about to get its 23rd update
C15_Witness ==
    /\ pc = "managers"
    /\ \E n \in 1..Len(Explosions) : Explosions[n]._current_frame = 22

\* C16 as stated: while the game stays in the menu, a toggle of the prompt comes 30
\* ticks after the toggle before it.
C16_TogglesThirtyApart ==
    [][/\ pc = "input"
       /\ game'.game_state = GAME_MENU
       /\ game'.text_visible # game.text_visible
       /\ since_toggle < NoToggle
       => since_toggle + 1 = 30]_vars

----------------------------------------------------------------------------
(* Sprite.set_position on its own: writes of the ship's position from           *)
(* coordinates up to MaxLaps screens off either way, near the screen edges      *)

Coordinates(size) ==
    {lap * size + d : lap \in (0 - MaxLaps)..MaxLaps,
                      d \in (0..MaxNudge) \cup ((size - 1 - MaxNudge)..(size - 1))}

WrapInputs == Coordinates(WIDTH * Unit) \X Coordinates(HEIGHT * Unit)

InitWrap ==
    /\ game = NewGame
    /\ pc = "ship"
    /\ keys = NoKeys
    /\ overlap = {}
    /\ since_shot = MAX_SHOT_DELAY
    /\ since_loss = NoLoss
    /\ since_toggle = NoToggle

WritePosition ==
    /\ pc = "ship"
    /\ \E value \in WrapInputs :
          game' = [game EXCEPT !.ship._position = SetPosition(TRUE, value)]
    /\ UNCHANGED <<pc, keys, overlap, since_shot, since_loss, since_toggle>>

NextWrap == WritePosition

SpecWrap == InitWrap /\ [][NextWrap]_vars

----------------------------------------------------------------------------
(* The menu after a lost game: the player fires the one shot of the game as the  *)
(* last life goes, and the shot goes on flying over the menu                     *)

KeysMenu ==
    {k \in AllKeys : /\ ~k.left /\ ~k.right /\ ~k.up
                     /\ k.space => game.game_state = GAME_MENU
                     /\ StartOK(k)
                     /\ k.fire => /\ game.game_state = GAME_PLAY
                                  /\ game.shot_manager.shot_delay = 0
                                  /\ game.lives = 1
                                  /\ ~game.ship.is_dead
                                  /\ Len(Shots) = 0}

\* the overlaps of the pass about to run on g: in play the ship alone can overlap
\* asteroids, with its last life only in the tick of its shot; over the menu the
\* shot can overlap asteroids in its first MaxFlight ticks
OverlapsMenu(g) ==
    LET shots == g.shot_manager.objects
    IN  IF g.game_state = GAME_PLAY
        THEN OverlapsOf(g, g.lives > 1 \/ ShotsInRange(g) # {}, {})
        ELSE OverlapsOf(g, FALSE,
                        {j \in 1..Len(shots) :
                            shots[j].time_to_live > MAX_TIME_TO_LIVE - MaxFlight})

NextMenu ==
    \/ HandleInput(KeysMenu)
    \/ ShipStep(OverlapsMenu(UpdateShip(game)))
    \/ CollideStep
    \/ ManagersStep
    \/ LevelStep

SpecMenu == Init /\ [][NextMenu]_vars

\* C17: a write through the position setter of a wrapping sprite stores a position
\* with 0 <= x < width and 0 <= y < height, whatever the coordinates given, negative
\* or beyond the screen: the one that differs from them by whole screens.
C17_WrapRange ==
    /\ Ship._position[1] >= 0 /\ Ship._position[1] < 800 * Unit
    /\ Ship._position[2] >= 0 /\ Ship._position[2] < 600 * Unit
    /\ \A value \in WrapInputs :
          LET stored == SetPosition(TRUE, value)
          IN  /\ stored[1] >= 0 /\ stored[1] < 800 * Unit
              /\ stored[2] >= 0 /\ stored[2] < 600 * Unit
              /\ (stored[1] - value[1]) % (800 * Unit) = 0
              /\ (stored[2] - value[2]) % (600 * Unit) = 0

\* a write has stored the last position before the far corner of the screen
C17_Witness ==
    /\ pc = "ship"
    /\ Ship._position = Vec(800 * Unit - 1, 600 * Unit - 1)
    /\ Vec(0 - 1, 0 - 1) \in WrapInputs
    /\ Vec(2 * 800 * Unit - 1, 2 * 600 * Unit - 1) \in WrapInputs

\* C18: at the end of every tick the game is in the menu exactly when no life is
\* left, lives is at most 3, the ship is dead exactly when the game is in the menu
\* or the respawn timer runs, and the respawn timer is 0 in the menu.
C18_Consistency ==
    pc = "input" =>
        /\ game.game_state = GAME_MENU <=> game.lives = 0
        /\ game.lives <= 3
        /\ Ship.is_dead <=> (game.game_state = GAME_MENU \/ game.respawn_time > 0)
        /\ game.game_state = GAME_MENU => game.respawn_time = 0

\* the end of a tick in the menu of a game that was played and lost
C18_Witness ==
    /\ pc = "input"
    /\ since_loss = GameOver
    /\ game.game_state = GAME_MENU
    /\ game.lives = 0
    /\ Ship.is_dead
    /\ game.level >= 1

\* the asteroid whose split has added asteroid c to the collection new, which had n
\* asteroids when the pass began
Parent(new, n, c) ==
    CHOOSE i \in Splitters(new) :
        LET rank == Cardinality({s \in Splitters(new) : s <= i})
        IN  c \in {n + 2 * rank - 1, n + 2 * rank}

\* C19: the asteroids a pass adds are visited later in that pass. One that overlaps
\* a shot is destroyed by it unless it or the shot is dead by then (scoring again:
\* 1000 for the parent and 1000 for the child; and splitting again), and the shot that
\* destroys it is never the shot that destroyed its parent (one that overlaps no
\* shot but the only shot on its parent stays alive); one that is left alive
\* and overlaps the live ship costs a life in the tick that destroyed its parent.
C19_ChildrenVisited ==
    [][pc = "collide" =>
          LET n == Len(Asteroids)
              new == game'.asteroid_manager.objects
              shots == game'.shot_manager.objects
          IN  \A c \in (n + 1)..Len(new) :
                LET i == Parent(new, n, c)
                IN  /\ i < c /\ new[i].is_dead
                    /\ \A j \in 1..Len(shots) :
                          <<c, j>> \in overlap => new[c].is_dead \/ shots[j].is_dead
                    /\ new[c].is_dead =>
                          /\ \E j, h \in Dead(shots) :
                                j # h /\ <<i, j>> \in overlap /\ <<c, h>> \in overlap
                          /\ game'.score >= game.score + 2000
                          /\ new[c].scale > 50 =>
                                \E d \in (c + 1)..Len(new) : Parent(new, n, d) = c
                    /\ (\E j \in 1..Len(shots) :
                            \A h \in 1..Len(shots) :
                                <<i, h>> \in overlap \/ <<c, h>> \in overlap => h = j)
                          => ~new[c].is_dead
                    /\ ~Ship.is_dead /\ <<c, 0>> \in overlap /\ ~new[c].is_dead =>
                          /\ game'.lives = game.lives - 1
                          /\ game'.ship.is_dead]_vars

\* a pass has just destroyed an asteroid with one shot and, with the other shot, one
\* of the two asteroids it got
C19_Witness ==
    /\ pc = "managers"
    /\ Len(Shots) = 2
    /\ Dead(Shots) = {1, 2}
    /\ \E i \in Dead(Asteroids) : \E c \in Dead(Asteroids) :
          /\ c > i
          /\ Asteroids[c]._position = AsteroidVector(i)
          /\ Asteroids[c].scale < Asteroids[i].scale
    /\ game.score >= 2000

\* C20: in the menu the ship update, the pass, the manager updates and the level
\* check all run. A step of a tick in the menu, the input handling with the start key
\* down apart, leaves lives, the game state, the respawn timer and the ship's dead
\* flag alone; the ship update still applies the velocity and the drag; the pass still
\* kills every overlapping pair of a shot and an asteroid and adds 1000 to the score
\* for each; the manager updates still age the shots and run the cooldown down; and
\* the level check still adds a level to an empty collection, taking the level from 0
\* to 1 with 5 asteroids in the first tick of all.
C20_MenuTicks ==
    /\ [](game.level = 0 => game.game_state = GAME_MENU /\ Len(Asteroids) = 0)
    /\ [][game.game_state = GAME_MENU =>
            LET asteroids == game'.asteroid_manager.objects
                shots == game'.shot_manager.objects
            IN  /\ ~(pc = "input" /\ keys'.space) =>
                      /\ game'.lives = game.lives
                      /\ game'.game_state = game.game_state
                      /\ game'.respawn_time = game.respawn_time
                      /\ game'.ship.is_dead = Ship.is_dead
                /\ pc = "input" /\ ~keys'.space =>
                      /\ shots = Shots
                      /\ game'.ship = Ship
                      /\ game'.score = game.score /\ game'.level = game.level
                /\ pc = "ship" =>
                      /\ game'.ship.velocity = VecScale(Ship.velocity, 99, 100)
                      /\ game'.ship._position
                            = SetPosition(TRUE, VecAdd(Ship._position, game'.ship.velocity))
                /\ pc = "collide" =>
                      /\ Dead(Asteroids) = {}
                      /\ game'.score = game.score + 1000 * Cardinality(Dead(asteroids))
                      /\ \A p \in ShotPairs :
                            asteroids[p[1]].is_dead \/ shots[p[2]].is_dead
                      /\ ShotPairs # {} => Dead(asteroids) # {}
                /\ pc = "managers" =>
                      /\ shots = Survivors(Shots)
                      /\ game'.shot_manager.shot_delay
                            = IF game.shot_manager.shot_delay > 0
                              THEN game.shot_manager.shot_delay - 1 ELSE 0
                      /\ game'.score = game.score
                /\ pc = "level" =>
                      IF Len(Asteroids) = 0
                      THEN /\ game'.level = game.level + 1
                           /\ Len(asteroids) = 3 + 2 * game'.level
                           /\ game.level = 0 => game'.level = 1 /\ Len(asteroids) = 5
                      ELSE game'.level = game.level /\ asteroids = Asteroids]_vars

\* over the menu of a lost game, the prompt counting down, a pass has just killed an
\* asteroid with the shot fired before the game was over
C20_Witness ==
    /\ pc = "managers"
    /\ game.game_state = GAME_MENU
    /\ since_loss = GameOver
    /\ game.text_blink < TEXT_WAIT
    /\ Dead(Asteroids) # {}
    /\ Dead(Shots) # {}
    /\ game.score >= 1000
    /\ game.lives = 0

====
